---------------------------- MODULE Spec2Model ----------------------------
(***************************************************************************)
(* A model of the dataset walkers of speechbox/dataset/walkers.py:         *)
(* construction of a walker, set_speaker_filter, and the walk() generator  *)
(* traversing a small file system with os.walk.                            *)
(*                                                                         *)
(* Strings the code looks into (file names, paths) are sequences of        *)
(* one-character strings; a path is a record [abs, comps] of its           *)
(* components, so that os.path.join, basename, endswith and slicing are    *)
(* computed as Python computes them.                                       *)
(***************************************************************************)
EXTENDS Integers, Sequences, FiniteSets, TLC

(***************************************************************************)
(* Bounds of the model.                                                    *)
(***************************************************************************)
\* symbolic links the operating system follows while resolving one path
\* before it fails with ELOOP (40 on Linux; kept small here)
SYMLOOP_MAX == 2
\* calls of walk() on one walker
MaxWalks == 1
\* calls of set_speaker_filter() on one walker
MaxFilterCalls == 2

(***************************************************************************)
(* Names of directories and files, as character sequences.                 *)
(***************************************************************************)
d_data == <<"d", "a", "t", "a">>
d_wav == <<"w", "a", "v">>
d_mandarin == <<"m", "a", "n", "d", "a", "r", "i", "n">>
d_german == <<"g", "e", "r", "m", "a", "n">>
d_english == <<"e", "n", "g", "l", "i", "s", "h">>
d_farsi == <<"f", "a", "r", "s", "i">>
d_french == <<"f", "r", "e", "n", "c", "h">>
d_hindi == <<"h", "i", "n", "d", "i">>
d_japanese == <<"j", "a", "p", "a", "n", "e", "s", "e">>
d_korean == <<"k", "o", "r", "e", "a", "n">>
d_spanish == <<"s", "p", "a", "n", "i", "s", "h">>
d_tamil == <<"t", "a", "m", "i", "l">>
d_vietnam == <<"v", "i", "e", "t", "n", "a", "m">>
d_cd01 == <<"c", "d", "0", "1">>
d_cd02 == <<"c", "d", "0", "2">>
d_cd03 == <<"c", "d", "0", "3">>
d_cd04 == <<"c", "d", "0", "4">>
d_speech == <<"s", "p", "e", "e", "c", "h">>
d_vietnamese == <<"v", "i", "e", "t", "n", "a", "m", "e", "s", "e">>
d_EGY == <<"E", "G", "Y">>
d_GLF == <<"G", "L", "F">>
d_LAV == <<"L", "A", "V">>
d_MSA == <<"M", "S", "A">>
d_NOR == <<"N", "O", "R">>
d_chinese == <<"c", "h", "i", "n", "e", "s", "e">>
d_persian == <<"p", "e", "r", "s", "i", "a", "n">>
d_swedish == <<"s", "w", "e", "d", "i", "s", "h">>
d_sub == <<"s", "u", "b">>
d_loop == <<"l", "o", "o", "p">>
f_ge084stb == <<"g", "e", "0", "8", "4", "s", "t", "b", ".", "w", "a", "v">>
f_ge084htl == <<"g", "e", "0", "8", "4", "h", "t", "l", ".", "w", "a", "v">>
f_ge085stb == <<"g", "e", "0", "8", "5", "s", "t", "b", ".", "w", "a", "v">>
f_ge086nlg == <<"g", "e", "0", "8", "6", "n", "l", "g", ".", "w", "a", "v">>
f_ge087wav == <<"g", "e", "0", "8", "7", "w", "a", "v">>
f_notes == <<"n", "o", "t", "e", "s", ".", "t", "x", "t">>
f_en001stb == <<"e", "n", "0", "0", "1", "s", "t", "b", ".", "w", "a", "v">>
f_en002stb == <<"e", "n", "0", "0", "2", "s", "t", "b", ".", "w", "a", "v">>
f_call12 == <<"c", "a", "l", "l", "-", "1", "2", "-", "a", ".", "w", "a", "v">>
f_call13 == <<"c", "a", "l", "l", "-", "1", "3", "-", "b", ".", "w", "a", "v">>
f_nocall == <<"e", "n", "-", "1", "4", ".", "w", "a", "v">>
f_e1 == <<"e", "1", ".", "w", "a", "v">>
f_x1 == <<"x", "1", ".", "w", "a", "v">>
f_fr001stb == <<"f", "r", "0", "0", "1", "s", "t", "b", ".", "w", "a", "v">>
f_gone == <<"g", "o", "n", "e", ".", "w", "a", "v">>

(***************************************************************************)
(* String helpers (Python str methods on character sequences).             *)
(***************************************************************************)
Min(a, b) == IF a < b THEN a ELSE b

\* s.endswith(suf)
EndsWith(s, suf) ==
    /\ Len(s) >= Len(suf)
    /\ SubSeq(s, Len(s) - Len(suf) + 1, Len(s)) = suf

\* s[:n]
Slice(s, n) == SubSeq(s, 1, Min(n, Len(s)))

\* does pat occur in s at position i
OccursAt(s, pat, i) ==
    /\ i >= 1
    /\ i + Len(pat) - 1 <= Len(s)
    /\ SubSeq(s, i, i + Len(pat) - 1) = pat

\* s.find(pat) counted from 1, 0 when pat does not occur
Find(s, pat) ==
    LET hits == {i \in 1..Len(s) : OccursAt(s, pat, i)}
    IN  IF hits = {} THEN 0 ELSE CHOOSE i \in hits : \A j \in hits : i <= j

\* s.split(pat): the pieces of s between the occurrences of pat
RECURSIVE Split(_, _)
Split(s, pat) ==
    LET i == Find(s, pat)
    IN  IF i = 0 THEN <<s>>
        ELSE <<SubSeq(s, 1, i - 1)>> \o Split(SubSeq(s, i + Len(pat), Len(s)), pat)

(***************************************************************************)
(* Paths.                                                                  *)
(***************************************************************************)
\* the value None where a path is expected
NoPath == [isNone |-> TRUE, abs |-> FALSE, comps |-> <<>>]
AbsPath(c) == [isNone |-> FALSE, abs |-> TRUE, comps |-> c]
RelPath(c) == [isNone |-> FALSE, abs |-> FALSE, comps |-> c]

\* os.path.join(a, b): an absolute b discards a
Join(a, b) ==
    IF b.abs THEN b
    ELSE [isNone |-> FALSE, abs |-> a.abs, comps |-> a.comps \o b.comps]

\* os.path.join(a, *names) for plain names
JoinNames(a, names) == Join(a, RelPath(names))

\* os.path.basename(p)
Basename(p) == IF p.comps = <<>> THEN <<>> ELSE p.comps[Len(p.comps)]

\* the path as the string Python holds: components separated by "/"
RECURSIVE JoinSlash(_)
JoinSlash(comps) ==
    IF comps = <<>> THEN <<>>
    ELSE IF Len(comps) = 1 THEN comps[1]
    ELSE comps[1] \o <<"/">> \o JoinSlash(Tail(comps))

PathString(p) == (IF p.abs THEN <<"/">> ELSE <<>>) \o JoinSlash(p.comps)

(***************************************************************************)
(* The file system: what os.walk, os.path.exists, read_wavfile, md5sum and *)
(* get_audio_type look at.  A node is named by its real absolute path.     *)
(* The working directory is "/".                                           *)
(***************************************************************************)
Dir(p, entries) ==
    [path |-> p, kind |-> "dir", entries |-> entries, target |-> <<>>, content |-> 0]
File(p, c) ==
    [path |-> p, kind |-> "file", entries |-> <<>>, target |-> <<>>, content |-> c]
Link(p, t) ==
    [path |-> p, kind |-> "link", entries |-> <<>>, target |-> t, content |-> 0]

p_german == <<d_data, d_wav, d_german>>
p_english == <<d_data, d_wav, d_english>>
p_french == <<d_data, d_wav, d_french>>
p_cd01english == <<d_data, d_cd01, d_speech, d_english>>

\* File contents: 1 and 2 are sound WAVE files, 3 is garbage, 4 is audio of
\* another type under a .wav name, 5 is a WAVE file whose digest equals that
\* of content 1.
CommonNodes ==
    { Dir(<<>>, <<d_data>>),
      Dir(<<d_data>>, <<d_wav, d_english, d_cd01>>),
      File(p_german \o <<f_ge084stb>>, 1),
      File(p_german \o <<f_ge085stb>>, 3),
      File(p_german \o <<f_ge086nlg>>, 4),
      File(p_german \o <<f_ge087wav>>, 2),
      File(p_german \o <<f_notes>>, 2),
      Dir(p_german, <<f_ge084stb, f_ge085stb, f_ge086nlg, f_ge087wav, f_notes, d_sub>>),
      Dir(p_german \o <<d_sub>>, <<f_ge084htl>>),
      File(p_german \o <<d_sub, f_ge084htl>>, 1),
      Dir(p_english, <<f_en001stb, f_en002stb>>),
      File(p_english \o <<f_en001stb>>, 1),
      File(p_english \o <<f_en002stb>>, 5),
      Dir(<<d_data, d_wav, d_EGY>>, <<f_x1>>),
      File(<<d_data, d_wav, d_EGY, f_x1>>, 2),
      Dir(<<d_data, d_english>>, <<f_e1>>),
      File(<<d_data, d_english, f_e1>>, 2),
      Dir(<<d_data, d_cd01>>, <<d_speech>>),
      Dir(<<d_data, d_cd01, d_speech>>, <<d_english>>),
      Dir(p_cd01english, <<f_call12, f_call13, f_nocall>>),
      File(p_cd01english \o <<f_call12>>, 1),
      File(p_cd01english \o <<f_call13>>, 2),
      File(p_cd01english \o <<f_nocall>>, 2) }

\* layout 1 has no symbolic link; layout 2 has the directory french with
\* french/loop -> french, a link to an ancestor of itself
FileSystems == {1, 2}
Nodes1 == CommonNodes \cup { Dir(<<d_data, d_wav>>, <<d_german, d_english, d_EGY>>) }
Nodes2 ==
    CommonNodes \cup { Dir(<<d_data, d_wav>>, <<d_german, d_english, d_EGY, d_french>>),
                       Dir(p_french, <<f_fr001stb, d_loop>>),
                       File(p_french \o <<f_fr001stb>>, 2),
                       Link(p_french \o <<d_loop>>, p_french) }
NodeMap1 == [p \in {n.path : n \in Nodes1} |-> CHOOSE n \in Nodes1 : n.path = p]
NodeMap2 == [p \in {n.path : n \in Nodes2} |-> CHOOSE n \in Nodes2 : n.path = p]
NodeMap(fs) == IF fs = 1 THEN NodeMap1 ELSE NodeMap2
Nodes(fs) == IF fs = 1 THEN Nodes1 ELSE Nodes2

HasNode(fs, p) == p \in DOMAIN NodeMap(fs)
NodeAt(fs, p) == NodeMap(fs)[p]

\* Path resolution as stat() does it: every symbolic link met is followed,
\* and the resolution fails once more than SYMLOOP_MAX links were followed.
RECURSIVE ResolveFrom(_, _, _, _)
ResolveFrom(fs, cur, rest, followed) ==
    IF rest = <<>> THEN [ok |-> TRUE, path |-> cur]
    ELSE LET child == Append(cur, Head(rest))
         IN  IF ~HasNode(fs, cur) \/ NodeAt(fs, cur).kind # "dir"
                  \/ ~HasNode(fs, child)
             THEN [ok |-> FALSE, path |-> <<>>]
             ELSE IF NodeAt(fs, child).kind = "link"
             THEN IF followed >= SYMLOOP_MAX
                  THEN [ok |-> FALSE, path |-> <<>>]
                  ELSE ResolveFrom(fs, NodeAt(fs, child).target, Tail(rest), followed + 1)
             ELSE ResolveFrom(fs, child, Tail(rest), followed)

\* relative paths start at the working directory, which is "/"
Resolve(fs, p) == ResolveFrom(fs, <<>>, p.comps, 0)

\* os.path.exists(p)
Exists(fs, p) == Resolve(fs, p).ok

\* DirEntry.is_dir(): follows links, False on any OSError
IsDir(fs, p) ==
    LET r == Resolve(fs, p)
    IN  r.ok /\ NodeAt(fs, r.path).kind = "dir"

\* os.path.islink(p): lstat of the last component
IsLink(fs, p) ==
    /\ p.comps # <<>>
    /\ LET par == ResolveFrom(fs, <<>>, SubSeq(p.comps, 1, Len(p.comps) - 1), 0)
       IN  /\ par.ok
           /\ HasNode(fs, Append(par.path, Basename(p)))
           /\ NodeAt(fs, Append(par.path, Basename(p))).kind = "link"

\* the content of the file p names (0 for a directory)
ContentOf(fs, p) == NodeAt(fs, Resolve(fs, p).path).content

\* os.scandir(top) as os.walk uses it: the entries of the directory in
\* listing order, or nothing when top cannot be listed
ScanDir(fs, top) ==
    IF IsDir(fs, top) THEN NodeAt(fs, Resolve(fs, top).path).entries ELSE <<>>
WalkDirs(fs, top) ==
    LET isdir(e) == IsDir(fs, JoinNames(top, <<e>>))
    IN  SelectSeq(ScanDir(fs, top), isdir)
WalkNonDirs(fs, top) ==
    LET nondir(e) == ~IsDir(fs, JoinNames(top, <<e>>))
    IN  SelectSeq(ScanDir(fs, top), nondir)

\* os.path.join(top, name) for each name
JoinEach(top, names) == [i \in 1..Len(names) |-> JoinNames(top, <<names[i]>>)]

\* the directories os.walk descends into after yielding top
WalkDescend(fs, top, followlinks) ==
    LET go(e) == followlinks \/ ~IsLink(fs, JoinNames(top, <<e>>))
    IN  JoinEach(top, SelectSeq(WalkDirs(fs, top), go))

(***************************************************************************)
(* speechbox.system: functions of a file's content.                        *)
(***************************************************************************)
\* read_wavfile(path)[0] is not None
ReadsAsAudio(c) == c \in {1, 2, 4, 5}
\* get_audio_type(path) == "wav": the content starts with a WAVE header
HasWaveHeader(c) == c \in {1, 2, 5}
\* md5sum(path): a digest of the content; contents 1 and 5 collide
md5sum(c) == <<"md5", c % 4>>

(***************************************************************************)
(* The walker classes.                                                     *)
(***************************************************************************)
Classes == {"OGIWalker", "OGIWalker2", "VarDial2017Walker", "TestWalker"}

\* the classes whose __init__ chooses between parse_directory_tree and
\* overwrite_target_paths
TreeClasses == {"OGIWalker", "OGIWalker2", "TestWalker"}

\* the class attribute dataset_tree
OGIWalker_dataset_tree ==
    [l \in {"cmn", "deu", "eng", "fas", "fra", "hin", "jpn", "kor", "spa", "tam", "vie"} |->
        CASE l = "cmn" -> << <<d_wav, d_mandarin>> >>
          [] l = "deu" -> << <<d_wav, d_german>> >>
          [] l = "eng" -> << <<d_wav, d_english>> >>
          [] l = "fas" -> << <<d_wav, d_farsi>> >>
          [] l = "fra" -> << <<d_wav, d_french>> >>
          [] l = "hin" -> << <<d_wav, d_hindi>> >>
          [] l = "jpn" -> << <<d_wav, d_japanese>> >>
          [] l = "kor" -> << <<d_wav, d_korean>> >>
          [] l = "spa" -> << <<d_wav, d_spanish>> >>
          [] l = "tam" -> << <<d_wav, d_tamil>> >>
          [] l = "vie" -> << <<d_wav, d_vietnam>> >>]

OGIWalker2_dataset_tree ==
    [l \in {"eng", "hin", "jpn", "kor", "cmn", "spa", "tam", "vie"} |->
        CASE l = "eng" -> << <<d_cd01, d_speech, d_english>> >>
          [] l = "hin" -> << <<d_cd02, d_speech, d_hindi>>, <<d_cd03, d_speech, d_hindi>> >>
          [] l = "jpn" -> << <<d_cd02, d_speech, d_japanese>>, <<d_cd03, d_speech, d_japanese>> >>
          [] l = "kor" -> << <<d_cd02, d_speech, d_korean>>, <<d_cd03, d_speech, d_korean>> >>
          [] l = "cmn" -> << <<d_cd02, d_speech, d_mandarin>>, <<d_cd03, d_speech, d_mandarin>> >>
          [] l = "spa" -> << <<d_cd02, d_speech, d_spanish>>, <<d_cd03, d_speech, d_spanish>>,
                             <<d_cd04, d_speech, d_spanish>> >>
          [] l = "tam" -> << <<d_cd04, d_speech, d_tamil>> >>
          [] l = "vie" -> << <<d_cd04, d_speech, d_vietnamese>> >>]

TestWalker_dataset_tree ==
    [l \in {"cmn", "eng", "fas", "fra", "swe"} |->
        CASE l = "cmn" -> << <<d_chinese>> >>
          [] l = "eng" -> << <<d_english>> >>
          [] l = "fas" -> << <<d_persian>> >>
          [] l = "fra" -> << <<d_french>> >>
          [] l = "swe" -> << <<d_swedish>> >>]

\* the directories VarDial2017Walker.__init__ writes into its definitions
VarDial2017Walker_sample_dirs ==
    [l \in {"EGY", "GLF", "LAV", "MSA", "NOR"} |->
        CASE l = "EGY" -> << <<d_wav, d_EGY>> >>
          [] l = "GLF" -> << <<d_wav, d_GLF>> >>
          [] l = "LAV" -> << <<d_wav, d_LAV>> >>
          [] l = "MSA" -> << <<d_wav, d_MSA>> >>
          [] l = "NOR" -> << <<d_wav, d_NOR>> >>]

dataset_tree(c) ==
    CASE c = "OGIWalker" -> OGIWalker_dataset_tree
      [] c = "OGIWalker2" -> OGIWalker2_dataset_tree
      [] c = "TestWalker" -> TestWalker_dataset_tree

\* the keys of the label_definitions each __init__ builds
ClassLabels(c) ==
    IF c = "VarDial2017Walker" THEN DOMAIN VarDial2017Walker_sample_dirs
    ELSE DOMAIN dataset_tree(c)

\* sorted(labels): Python orders strings by code point
LabelOrder ==
    <<"EGY", "GLF", "LAV", "MSA", "NOR", "cmn", "deu", "eng", "fas", "fra",
      "hin", "jpn", "kor", "spa", "swe", "tam", "vie">>
Sorted(S) ==
    LET in(l) == l \in S
    IN  SelectSeq(LabelOrder, in)

\* has the class a parse_speaker_id method
HasParseSpeakerId(c) == c \in {"OGIWalker", "OGIWalker2"}

\* OGIWalker.parse_speaker_id: the first five characters of the file name
OGIWalker_parse_speaker_id(path) == Slice(Basename(path), 5)

\* OGIWalker2.parse_speaker_id raises IndexError when "call-" is not in the name
OGIWalker2_parse_raises(path) ==
    Len(Split(Basename(path), <<"c", "a", "l", "l", "-">>)) < 2
\* OGIWalker2.parse_speaker_id: basename.split("call-")[1].split("-")[0]
OGIWalker2_parse_speaker_id(path) ==
    Split(Split(Basename(path), <<"c", "a", "l", "l", "-">>)[2], <<"-">>)[1]

parse_speaker_id(c, path) ==
    IF c = "OGIWalker" THEN OGIWalker_parse_speaker_id(path)
    ELSE OGIWalker2_parse_speaker_id(path)

(***************************************************************************)
(* Construction.                                                           *)
(***************************************************************************)
\* a list argument of __init__: left out, None, or a list
Omitted == [given |-> FALSE, isNone |-> TRUE, items |-> <<>>]
GivenNone == [given |-> TRUE, isNone |-> TRUE, items |-> <<>>]
GivenList(s) == [given |-> TRUE, isNone |-> FALSE, items |-> s]

\* Python truth of a list argument and of a path string
Truthy(v) == ~v.isNone /\ v.items # <<>>
TruthyPath(p) == ~p.isNone /\ PathString(p) # <<>>

\* one definition of label_definitions: `keys` are the keys the dict has
\* besides "name"
NewDefinition ==
    [keys |-> {}, sample_dirs |-> <<>>, sample_files |-> <<>>,
     sample_file_checksums |-> <<>>]

\* the first assertion written with `or`
BaseInitOk_any(root, paths, labels, checksums) ==
    IF root.isNone
    THEN Truthy(paths) \/ Truthy(labels) \/ Truthy(checksums)
    ELSE paths.isNone /\ labels.isNone /\ checksums.isNone

\* SpeechDatasetWalker.__init__: the two assertions
BaseInitOk(root, paths, labels, checksums) ==
    IF root.isNone
    THEN Truthy(paths) /\ Truthy(labels) /\ Truthy(checksums)
    ELSE paths.isNone /\ labels.isNone /\ checksums.isNone

\* SpeechDatasetWalker.join_root(*names)
join_root(root, names) == JoinNames(root, names)

\* SpeechDatasetWalker.parse_directory_tree
parse_directory_tree(c, root, defs) ==
    [l \in DOMAIN defs |->
        [defs[l] EXCEPT
            !.keys = @ \cup {"sample_dirs"},
            !.sample_dirs = [i \in 1..Len(dataset_tree(c)[l]) |->
                                join_root(root, dataset_tree(c)[l][i])]]]

\* zip(labels, paths, checksums) stops at the shortest list
ZipLen(paths, labels, checksums) ==
    Min(Len(labels.items), Min(Len(paths.items), Len(checksums.items)))

\* SpeechDatasetWalker.overwrite_target_paths, given that it does not raise
overwrite_target_paths(defs, paths, labels, checksums) ==
    LET n == ZipLen(paths, labels, checksums)
        idx(l) == {i \in 1..n : labels.items[i] = l}
        pick(s, l) ==
            LET keep(i) == i \in idx(l)
                is == SelectSeq([i \in 1..n |-> i], keep)
            IN  [k \in 1..Len(is) |-> s[is[k]]]
    IN  [l \in DOMAIN defs |->
            [keys |-> {"sample_dirs", "sample_files", "sample_file_checksums"},
             sample_dirs |-> <<>>,
             sample_files |-> pick(paths.items, l),
             sample_file_checksums |-> pick(checksums.items, l)]]

\* the exception overwrite_target_paths ends with, "" when it returns
overwrite_target_paths_error(defs, paths, labels, checksums) ==
    IF paths.isNone \/ labels.isNone \/ checksums.isNone THEN "TypeError"
    ELSE IF \E i \in 1..ZipLen(paths, labels, checksums) :
                labels.items[i] \notin DOMAIN defs
    THEN "KeyError"
    ELSE ""

\* does the subclass __init__ take the parse_directory_tree branch:
\* kwargs.get("dataset_root") is truthy
TakesTreeBranch(root, style) == style = "keyword" /\ TruthyPath(root)

\* the exception the whole __init__ of class c ends with, "" when the
\* walker is constructed
InitError(c, root, style, paths, labels, checksums) ==
    IF ~BaseInitOk(root, paths, labels, checksums) THEN "AssertionError"
    ELSE IF c = "VarDial2017Walker"
    THEN IF root.isNone THEN "TypeError" ELSE ""
    ELSE IF TakesTreeBranch(root, style) THEN ""
    ELSE IF style = "positional" \/ ~paths.given \/ ~labels.given \/ ~checksums.given
    THEN "KeyError"
    ELSE overwrite_target_paths_error([l \in ClassLabels(c) |-> NewDefinition],
                                      paths, labels, checksums)

\* the label_definitions the __init__ of class c leaves
InitDefinitions(c, root, style, paths, labels, checksums) ==
    LET fresh == [l \in ClassLabels(c) |-> NewDefinition]
    IN  IF c = "VarDial2017Walker"
        THEN [l \in ClassLabels(c) |->
                [NewDefinition EXCEPT
                    !.keys = {"sample_dirs"},
                    !.sample_dirs = [i \in 1..Len(VarDial2017Walker_sample_dirs[l]) |->
                                        join_root(root, VarDial2017Walker_sample_dirs[l][i])]]]
        ELSE IF TakesTreeBranch(root, style)
        THEN parse_directory_tree(c, root, fresh)
        ELSE overwrite_target_paths(fresh, paths, labels, checksums)

(***************************************************************************)
(* Inputs.                                                                 *)
(***************************************************************************)
\* dataset_root: None, "", "data", "/data"
Roots == {NoPath, RelPath(<<>>), RelPath(<<d_data>>), AbsPath(<<d_data>>)}

\* how the arguments are passed to the subclass __init__(*args, **kwargs)
Styles == {"keyword", "positional"}

w_ge084stb == AbsPath(p_german \o <<f_ge084stb>>)
w_ge084htl == AbsPath(p_german \o <<d_sub, f_ge084htl>>)
w_ge085stb == AbsPath(p_german \o <<f_ge085stb>>)
w_gone == AbsPath(p_german \o <<f_gone>>)
w_en001stb == AbsPath(p_english \o <<f_en001stb>>)
w_en002stb == AbsPath(p_english \o <<f_en002stb>>)

\* paths, labels, checksums
NothingPredefined == [paths |-> Omitted, labels |-> Omitted, checksums |-> Omitted]
PredefinedGerman ==
    [paths |-> GivenList(<<w_ge084stb, w_ge085stb, w_gone, w_ge084htl, w_en001stb>>),
     labels |-> GivenList(<<"deu", "deu", "deu", "deu", "eng">>),
     checksums |-> GivenList(<<md5sum(1), md5sum(3), md5sum(2), md5sum(1), md5sum(1)>>)]
Predefined ==
    { NothingPredefined,
      [paths |-> GivenNone, labels |-> GivenNone, checksums |-> GivenNone],
      [paths |-> GivenList(<<>>), labels |-> GivenList(<<>>), checksums |-> GivenList(<<>>)],
      [paths |-> GivenList(<<w_ge084stb>>), labels |-> Omitted, checksums |-> Omitted],
      PredefinedGerman,
      [paths |-> GivenList(<<w_en001stb, w_en002stb, w_ge084stb>>),
       labels |-> GivenList(<<"eng", "eng">>),
       checksums |-> GivenList(<<md5sum(1), md5sum(5), md5sum(1)>>)] }

\* one call of a constructor: the class, the arguments, and the layouts of
\* the disk it is tried on
CallOf(f, c, root, style, pre) ==
    [fs |-> f, cls |-> c, root |-> root, style |-> style,
     paths |-> pre.paths, labels |-> pre.labels, checksums |-> pre.checksums]

AllInputs ==
    {CallOf(FileSystems, c, root, style, pre) :
        c \in Classes, root \in Roots, style \in Styles, pre \in Predefined}

WalkerInputs ==
    { CallOf({1, 2}, "OGIWalker", AbsPath(<<d_data>>), "keyword", NothingPredefined),
      CallOf({1}, "OGIWalker", RelPath(<<d_data>>), "keyword", NothingPredefined),
      CallOf({1}, "OGIWalker", NoPath, "keyword", PredefinedGerman),
      CallOf({1}, "OGIWalker2", AbsPath(<<d_data>>), "keyword", NothingPredefined),
      CallOf({1}, "TestWalker", AbsPath(<<d_data>>), "keyword", NothingPredefined),
      CallOf({1}, "VarDial2017Walker", AbsPath(<<d_data>>), "positional", NothingPredefined) }

\* the dicts handed to set_speaker_filter: label -> list of speaker ids
s_ge084 == <<"g", "e", "0", "8", "4">>
s_ge086 == <<"g", "e", "0", "8", "6">>
s_en001 == <<"e", "n", "0", "0", "1">>
s_12 == <<"1", "2">>
NoLabels == {}
SpeakerDicts ==
    { [l \in NoLabels |-> <<>>],
      [l \in {"deu"} |-> <<s_ge084, s_ge084>>],
      [l \in {"deu", "eng"} |-> IF l = "deu" THEN <<s_ge086>> ELSE <<s_en001, s_12>>] }

Range(s) == {s[i] : i \in DOMAIN s}

(***************************************************************************)
(* State.                                                                  *)
(***************************************************************************)
VARIABLES
    fs,                             \* the layout of the files on disk
    obj,                            \* "new", "alive" (constructed) or "failed"
    err,                            \* the exception __init__ ended with
    cls,                            \* the class of the walker
    args,                           \* the arguments __init__ was called with
    dataset_root,                   \* self.dataset_root
    label_definitions,              \* self.label_definitions
    ignored_speaker_ids_by_label,   \* self.ignored_speaker_ids_by_label
    gen,                            \* the generator walk() returned last
    nWalks,                         \* calls of walk() so far
    nFilters                        \* calls of set_speaker_filter() so far

vars == <<fs, obj, err, cls, args, dataset_root, label_definitions,
          ignored_speaker_ids_by_label, gen, nWalks, nFilters>>

\* the walker object's own state and the disk
walker_state == <<fs, dataset_root, label_definitions, ignored_speaker_ids_by_label>>

EmptyDict == [l \in NoLabels |-> <<>>]

NoArgs ==
    [root |-> NoPath, style |-> "keyword",
     paths |-> Omitted, labels |-> Omitted, checksums |-> Omitted]

\* gen.status: "none" (walk() not called), "fresh" (generator created, body
\* not entered), "running", "suspended" (at a yield), "done", "raised".
\* gen.pc is the loop of walk() the generator is in.  The fields from
\* `yielded` on record the history of the walk and are not read by it:
\* the entries yielded (with the real file each path names), the verdict of
\* every audiofile_ok, the filter and the number of set_speaker_filter calls
\* when walk() was called, the real directories os.walk yielded for the
\* current sample_dir, and whether one of them was yielded twice.
NoGen ==
    [status |-> "none", error |-> "",
     check_duplicates |-> FALSE, check_read |-> FALSE, followlinks |-> FALSE,
     pc |-> "label", labels |-> <<>>, label |-> "",
     sample_dirs |-> <<>>, stack |-> <<>>, seen_directories |-> {},
     parent |-> NoPath, files |-> <<>>, sample_files |-> <<>>,
     duplicates |-> EmptyDict, invalid_files |-> <<>>, num_walked |-> 0,
     yielded |-> <<>>, checked |-> <<>>, filter_at_call |-> EmptyDict,
     filters_at_call |-> 0, seen_real |-> {}, revisited |-> FALSE]

Init ==
    /\ fs \in FileSystems
    /\ obj = "new"
    /\ err = ""
    /\ cls = ""
    /\ args = NoArgs
    /\ dataset_root = NoPath
    /\ label_definitions = EmptyDict
    /\ ignored_speaker_ids_by_label = EmptyDict
    /\ gen = NoGen
    /\ nWalks = 0
    /\ nFilters = 0

(***************************************************************************)
(* __init__ of a walker class.                                             *)
(***************************************************************************)
ConstructWith(inputs) ==
    /\ obj = "new"
    /\ \E in \in inputs :
          LET e == InitError(in.cls, in.root, in.style, in.paths, in.labels, in.checksums)
          IN  /\ fs \in in.fs
              /\ cls' = in.cls
              /\ args' = [root |-> in.root, style |-> in.style, paths |-> in.paths,
                          labels |-> in.labels, checksums |-> in.checksums]
              /\ err' = e
              /\ IF e = ""
                 THEN /\ obj' = "alive"
                      /\ dataset_root' = in.root
                      /\ label_definitions' =
                            InitDefinitions(in.cls, in.root, in.style, in.paths, in.labels,
                                            in.checksums)
                 ELSE /\ obj' = "failed"
                      /\ UNCHANGED <<dataset_root, label_definitions>>
    /\ UNCHANGED <<fs, ignored_speaker_ids_by_label, gen, nWalks, nFilters>>

\* construction with any of the arguments
Construct == ConstructWith(AllInputs)

\* construction of the walkers whose walks are explored
ConstructWalker == ConstructWith(WalkerInputs)

(***************************************************************************)
(* set_speaker_filter(speaker_ids_by_label).  The caller runs only while   *)
(* no generator is executing.                                              *)
(***************************************************************************)
\* {label: set(ids) for label, ids in speaker_ids_by_label.items()}
NewSpeakerFilter(old, d) == [l \in DOMAIN d |-> Range(d[l])]

SetSpeakerFilter ==
    /\ obj = "alive"
    /\ gen.status # "running"
    /\ nFilters < MaxFilterCalls
    /\ \E d \in SpeakerDicts :
          ignored_speaker_ids_by_label' = NewSpeakerFilter(ignored_speaker_ids_by_label, d)
    /\ nFilters' = nFilters + 1
    /\ UNCHANGED <<fs, obj, err, cls, args, dataset_root, label_definitions, gen, nWalks>>

(***************************************************************************)
(* speaker_id_is_ignored and audiofile_ok.                                 *)
(***************************************************************************)
\* the exception speaker_id_is_ignored ends with, "" when it returns
speaker_id_error(c, filter, wavpath, label) ==
    IF label \notin DOMAIN filter THEN ""
    ELSE IF ~HasParseSpeakerId(c) THEN "AttributeError"
    ELSE IF c = "OGIWalker2" /\ OGIWalker2_parse_raises(wavpath) THEN "IndexError"
    ELSE ""

\* the test inverted: the listed speakers are the ones dropped
speaker_id_is_ignored_listed(c, filter, wavpath, label) ==
    IF label \notin DOMAIN filter THEN FALSE
    ELSE parse_speaker_id(c, wavpath) \in filter[label]

\* speaker_id_is_ignored(wavpath, label), given that it does not raise
speaker_id_is_ignored(c, filter, wavpath, label) ==
    IF label \notin DOMAIN filter THEN FALSE
    ELSE parse_speaker_id(c, wavpath) \notin filter[label]

\* any(wavpath.endswith(ext) for ext in file_extensions), file_extensions = ("wav",)
HasFileExtension(wavpath) == EndsWith(PathString(wavpath), <<"w", "a", "v">>)

\* duplicates[content_hash].append(wavpath) on a defaultdict(list)
DuplicatesAppend(duplicates, h, wavpath) ==
    [x \in DOMAIN duplicates \cup {h} |->
        IF x = h
        THEN Append(IF h \in DOMAIN duplicates THEN duplicates[h] ELSE <<>>, wavpath)
        ELSE duplicates[x]]

\* the comparison off by one
IsRepeated_from_third(duplicates, h) == Len(duplicates[h]) > 2

\* is the file a repeated one: len(duplicates[content_hash]) > 1
IsRepeated(duplicates, h) == Len(duplicates[h]) > 1

\* what audiofile_ok returns or raises, and duplicates and invalid_files
\* as it leaves them: res is "ok" (True), the reason of a False, or the
\* exception raised
Verdict(res, duplicates, invalid_files) ==
    [res |-> res, duplicates |-> duplicates, invalid_files |-> invalid_files]

\* audiofile_ok, the filters: the speaker filter, then the file extension
CheckFilters(c, filter, wavpath, label, duplicates, invalid_files) ==
    IF speaker_id_error(c, filter, wavpath, label) # ""
    THEN Verdict(speaker_id_error(c, filter, wavpath, label), duplicates, invalid_files)
    ELSE IF speaker_id_is_ignored(c, filter, wavpath, label)
    THEN Verdict("filtered", duplicates, invalid_files)
    ELSE IF ~HasFileExtension(wavpath)
    THEN Verdict("extension", duplicates, invalid_files)
    ELSE Verdict("ok", duplicates, invalid_files)

\* audiofile_ok, check_duplicates: after duplicates[content_hash].append(wavpath)
CheckDuplicate(c, filter, g, wavpath, label, duplicates, h) ==
    IF IsRepeated(duplicates, h)
    THEN Verdict("duplicate", duplicates, g.invalid_files)
    ELSE CheckFilters(c, filter, wavpath, label, duplicates, g.invalid_files)

\* the check_read branch without its `return False`
CheckContent_no_return(c, filter, g, wavpath, label, content) ==
    IF g.check_duplicates
    THEN CheckDuplicate(c, filter,
                        [g EXCEPT !.invalid_files =
                            IF g.check_read /\ ~ReadsAsAudio(content)
                            THEN Append(@, wavpath) ELSE @],
                        wavpath, label,
                        DuplicatesAppend(g.duplicates, md5sum(content), wavpath),
                        md5sum(content))
    ELSE CheckFilters(c, filter, wavpath, label, g.duplicates,
                      IF g.check_read /\ ~ReadsAsAudio(content)
                      THEN Append(g.invalid_files, wavpath) ELSE g.invalid_files)

\* audiofile_ok, for a file that exists and has the given content
CheckContent(c, filter, g, wavpath, label, content) ==
    IF g.check_read /\ ~ReadsAsAudio(content)
    THEN Verdict("invalid", g.duplicates, Append(g.invalid_files, wavpath))
    ELSE IF g.check_duplicates
    THEN CheckDuplicate(c, filter, g, wavpath, label,
                        DuplicatesAppend(g.duplicates, md5sum(content), wavpath),
                        md5sum(content))
    ELSE CheckFilters(c, filter, wavpath, label, g.duplicates, g.invalid_files)

\* audiofile_ok(wavpath, label)
audiofile_ok(f, c, filter, g, wavpath, label) ==
    IF ~Exists(f, wavpath)
    THEN Verdict("missing", g.duplicates, g.invalid_files)
    ELSE CheckContent(c, filter, g, wavpath, label, ContentOf(f, wavpath))

Exceptions == {"AttributeError", "IndexError", "TypeError", "DatasetRecursionError"}

(***************************************************************************)
(* walk(check_duplicates, check_read, followlinks): a generator.  walk()   *)
(* only creates it; its body runs between a next() of the consumer and     *)
(* the following yield, return or exception.                               *)
(***************************************************************************)
WalkCall ==
    /\ obj = "alive"
    /\ gen.status # "running"
    /\ nWalks < MaxWalks
    /\ \E cd \in BOOLEAN, cr \in BOOLEAN, fl \in BOOLEAN :
          gen' = [NoGen EXCEPT !.status = "fresh",
                               !.check_duplicates = cd,
                               !.check_read = cr,
                               !.followlinks = fl,
                               !.filter_at_call = ignored_speaker_ids_by_label,
                               !.filters_at_call = nFilters]
    /\ nWalks' = nWalks + 1
    /\ UNCHANGED <<fs, obj, err, cls, args, dataset_root, label_definitions,
                   ignored_speaker_ids_by_label, nFilters>>

\* next(generator): enter the body, or continue after the yield
Resume ==
    /\ gen.status \in {"fresh", "suspended"}
    /\ gen' = IF gen.status = "fresh"
              THEN [gen EXCEPT !.status = "running", !.pc = "label",
                               !.labels = Sorted(DOMAIN label_definitions)]
              ELSE [gen EXCEPT !.status = "running"]
    /\ UNCHANGED <<fs, obj, err, cls, args, dataset_root, label_definitions,
                   ignored_speaker_ids_by_label, nWalks, nFilters>>

\* setdefault(key, []) in the place of get(key, [])
AfterSetDefault(defs, label, key) == [defs EXCEPT ![label].keys = @ \cup {key}]

\* label_definitions after self.label_definitions[label].get(key, []):
\* get() leaves the dict as it is
AfterGet(defs, label, key) == defs

\* dict.get(key, []) on one label definition
GetList(def, key) ==
    IF key \notin def.keys THEN <<>>
    ELSE IF key = "sample_dirs" THEN def.sample_dirs
    ELSE IF key = "sample_files" THEN def.sample_files
    ELSE def.sample_file_checksums

\* for label in sorted(self.label_definitions.keys()):
StepLabel ==
    /\ gen.status = "running"
    /\ gen.pc = "label"
    /\ gen' = IF gen.labels = <<>>
              THEN [gen EXCEPT !.status = "done"]
              ELSE [gen EXCEPT !.label = Head(gen.labels),
                               !.labels = Tail(gen.labels),
                               !.sample_dirs =
                                    GetList(label_definitions[Head(gen.labels)], "sample_dirs"),
                               !.pc = "sdir"]
    /\ label_definitions' =
          IF gen.labels = <<>> THEN label_definitions
          ELSE AfterGet(label_definitions, Head(gen.labels), "sample_dirs")
    /\ UNCHANGED <<fs, obj, err, cls, args, dataset_root,
                   ignored_speaker_ids_by_label, nWalks, nFilters>>

\* for sample_dir in sample_dirs: seen_directories = set(); os.walk(sample_dir)
StepSampleDir ==
    /\ gen.status = "running"
    /\ gen.pc = "sdir"
    /\ gen' = IF gen.sample_dirs = <<>>
              THEN [gen EXCEPT !.sample_files =
                                    GetList(label_definitions[gen.label], "sample_files"),
                               !.pc = "sfile"]
              ELSE [gen EXCEPT !.sample_dirs = Tail(gen.sample_dirs),
                               !.seen_directories = {},
                               !.seen_real = {},
                               !.stack = <<Head(gen.sample_dirs)>>,
                               !.pc = "oswalk"]
    /\ label_definitions' =
          IF gen.sample_dirs = <<>>
          THEN AfterGet(label_definitions, gen.label, "sample_files")
          ELSE label_definitions
    /\ UNCHANGED <<fs, obj, err, cls, args, dataset_root,
                   ignored_speaker_ids_by_label, nWalks, nFilters>>

\* if this_dir in seen_directories: raise DatasetRecursionError
AlreadyTraversed(seen_directories, this_dir) == this_dir \in seen_directories

\* the body of the os.walk loop up to the loop over the files, for the
\* directory `top` that os.walk yields; g already holds what os.walk will
\* yield later
EnterDirectory(g, top, this_dir, files) ==
    IF dataset_root.isNone
    THEN [g EXCEPT !.status = "raised", !.error = "TypeError"]
    ELSE IF AlreadyTraversed(g.seen_directories, this_dir)
    THEN [g EXCEPT !.status = "raised", !.error = "DatasetRecursionError"]
    ELSE [g EXCEPT !.seen_directories = @ \cup {this_dir},
                   !.parent = top,
                   !.files = files,
                   !.pc = "file"]

\* os.walk yields `top`, whose real directory is `real`, and will go on
\* with the directories `descend` before those left on the stack
OsWalkYield(g, top, real, descend) ==
    EnterDirectory([g EXCEPT !.stack = descend \o Tail(g.stack),
                             !.revisited = @ \/ real \in g.seen_real,
                             !.seen_real = @ \cup {real}],
                   top, Join(dataset_root, top), WalkNonDirs(fs, top))

\* for parent, _, files in os.walk(sample_dir, followlinks=followlinks):
\* the next directory of os.walk; one that cannot be listed is passed over
StepOsWalk ==
    /\ gen.status = "running"
    /\ gen.pc = "oswalk"
    /\ gen' =
         IF gen.stack = <<>> THEN [gen EXCEPT !.pc = "sdir"]
         ELSE IF ~IsDir(fs, Head(gen.stack)) THEN [gen EXCEPT !.stack = Tail(gen.stack)]
         ELSE OsWalkYield(gen, Head(gen.stack), Resolve(fs, Head(gen.stack)).path,
                          WalkDescend(fs, Head(gen.stack), gen.followlinks))
    /\ UNCHANGED <<fs, obj, err, cls, args, dataset_root, label_definitions,
                   ignored_speaker_ids_by_label, nWalks, nFilters>>

\* the filter bound when walk() was called
FilterAtCall(g) == g.filter_at_call

\* the filter audiofile_ok consults: self.ignored_speaker_ids_by_label as
\* it is when the file is checked
FilterInForce(g) == ignored_speaker_ids_by_label

\* what walk() does with the verdict r of audiofile_ok on wavpath:
\* if audiofile_ok(wavpath, label): yield label, wavpath, md5sum(wavpath)
Yielding(g, wavpath, label, r) ==
    IF r.res \in Exceptions
    THEN [g EXCEPT !.status = "raised", !.error = r.res,
                   !.duplicates = r.duplicates, !.invalid_files = r.invalid_files,
                   !.checked = Append(@, [label |-> label, path |-> wavpath, res |-> r.res])]
    ELSE [g EXCEPT !.status = IF r.res = "ok" THEN "suspended" ELSE @,
                   !.duplicates = r.duplicates, !.invalid_files = r.invalid_files,
                   !.checked = Append(@, [label |-> label, path |-> wavpath, res |-> r.res]),
                   !.yielded = IF r.res = "ok"
                               THEN Append(@, [label |-> label, path |-> wavpath,
                                               md5 |-> md5sum(ContentOf(fs, wavpath)),
                                               real |-> Resolve(fs, wavpath).path])
                               ELSE @]

\* num_walked += 1, then audiofile_ok(wavpath, label) and the yield
CheckAndYield(g, wavpath, label) ==
    Yielding([g EXCEPT !.num_walked = @ + 1], wavpath, label,
             audiofile_ok(fs, cls, FilterInForce(g), g, wavpath, label))

\* for f in files: wavpath = self.join_root(parent, f)
StepFile ==
    /\ gen.status = "running"
    /\ gen.pc = "file"
    /\ gen' = IF gen.files = <<>>
              THEN [gen EXCEPT !.pc = "oswalk"]
              ELSE CheckAndYield([gen EXCEPT !.files = Tail(gen.files)],
                                 Join(dataset_root, JoinNames(gen.parent, <<Head(gen.files)>>)),
                                 gen.label)
    /\ UNCHANGED <<fs, obj, err, cls, args, dataset_root, label_definitions,
                   ignored_speaker_ids_by_label, nWalks, nFilters>>

\* for wavpath in sample_files:
StepSampleFile ==
    /\ gen.status = "running"
    /\ gen.pc = "sfile"
    /\ gen' = IF gen.sample_files = <<>>
              THEN [gen EXCEPT !.pc = "label"]
              ELSE CheckAndYield([gen EXCEPT !.sample_files = Tail(gen.sample_files)],
                                 Head(gen.sample_files), gen.label)
    /\ UNCHANGED <<fs, obj, err, cls, args, dataset_root, label_definitions,
                   ignored_speaker_ids_by_label, nWalks, nFilters>>

Next ==
    \/ ConstructWalker
    \/ SetSpeakerFilter
    \/ WalkCall
    \/ Resume
    \/ StepLabel
    \/ StepSampleDir
    \/ StepOsWalk
    \/ StepFile
    \/ StepSampleFile

Spec == Init /\ [][Next]_vars

\* construction alone, over all the arguments
NextConstruct == Construct
SpecConstruct == Init /\ [][NextConstruct]_vars

(***************************************************************************)
(* Properties.                                                             *)
(***************************************************************************)
Last(s) == s[Len(s)]
IsPrefix(a, b) == Len(a) <= Len(b) /\ SubSeq(b, 1, Len(a)) = a
DotWav == <<".", "w", "a", "v">>

\* does parse_speaker_id of class c raise on path
ParseRaises(c, path) == c = "OGIWalker2" /\ OGIWalker2_parse_raises(path)

\* the speaker of path is one that `filter` lists for `label`
SpeakerListed(c, filter, path, label) ==
    /\ HasParseSpeakerId(c)
    /\ ~ParseRaises(c, path)
    /\ parse_speaker_id(c, path) \in filter[label]

\* the step added one verdict of audiofile_ok to the history
Checked == Len(gen'.checked) = Len(gen.checked) + 1

\* C1: with followlinks=True, when the walk comes to a directory it has
\* already traversed under the same sample_dir (through a symbolic link to
\* an ancestor), it raises DatasetRecursionError.
C1_RecursionDetected ==
    (gen.followlinks /\ gen.revisited)
        => (gen.status = "raised" /\ gen.error = "DatasetRecursionError")

\* C2: with check_duplicates=True no two entries yielded by one walk have
\* equal content hashes, and the entry yielded for a hash is the first file
\* with that hash that the walk registered.
C2_NoEqualHashes ==
    gen.check_duplicates =>
        /\ \A i, j \in DOMAIN gen.yielded :
              i # j => gen.yielded[i].md5 # gen.yielded[j].md5
        /\ \A i \in DOMAIN gen.yielded :
              gen.duplicates[gen.yielded[i].md5][1] = gen.yielded[i].path

\* a walk that skipped a file whose hash equals that of an entry yielded
\* under another label
C2_Witness ==
    /\ gen.check_duplicates
    /\ \E i \in DOMAIN gen.checked, j \in DOMAIN gen.yielded :
          /\ gen.checked[i].res = "duplicate"
          /\ md5sum(ContentOf(fs, gen.checked[i].path)) = gen.yielded[j].md5
          /\ gen.checked[i].label # gen.yielded[j].label

\* C3: every entry yielded is a file whose path ends with ".wav" and whose
\* content has a valid WAVE header.
C3_OnlyValidWav ==
    \A i \in DOMAIN gen.yielded :
        /\ EndsWith(PathString(gen.yielded[i].path), DotWav)
        /\ HasWaveHeader(ContentOf(fs, gen.yielded[i].path))

\* the walks C4 is about: called after a set_speaker_filter(d) that is
\* still the last one, on a class that has parse_speaker_id
C4_Scope ==
    /\ obj = "alive"
    /\ HasParseSpeakerId(cls)
    /\ gen.status # "none"
    /\ gen.filters_at_call > 0
    /\ nFilters = gen.filters_at_call

WavFilesUnder(f, dir) ==
    {n.path : n \in {m \in Nodes(f) : /\ m.kind = "file"
                                      /\ IsPrefix(dir, m.path)
                                      /\ EndsWith(Last(m.path), DotWav)}}

\* C5: a finished walk with default flags and no speaker filter, of a
\* walker built from a dataset_root, has yielded exactly one entry for every
\* .wav file under the directories dataset_tree gives the label.
C5_EveryWavFileOnce ==
    ( /\ obj = "alive"
      /\ cls \in TreeClasses
      /\ ~dataset_root.isNone
      /\ gen.status = "done"
      /\ ~gen.check_duplicates /\ ~gen.check_read /\ gen.followlinks
      /\ nFilters = 0 )
    => \A l \in DOMAIN label_definitions :
          \A k \in DOMAIN dataset_tree(cls)[l] :
             Exists(fs, join_root(dataset_root, dataset_tree(cls)[l][k])) =>
                \A p \in WavFilesUnder(fs, Resolve(fs, join_root(dataset_root,
                                                   dataset_tree(cls)[l][k])).path) :
                   Cardinality({i \in DOMAIN gen.yielded :
                                   /\ gen.yielded[i].label = l
                                   /\ gen.yielded[i].real = p}) = 1

\* nothing is left for the walk to do
NothingLeft ==
    /\ gen.labels = <<>> /\ gen.sample_dirs = <<>> /\ gen.stack = <<>>
    /\ gen.files = <<>> /\ gen.sample_files = <<>>

\* the paths audiofile_ok accepted, in order
Accepted ==
    LET ok(c) == c.res = "ok"
        oks == SelectSeq(gen.checked, ok)
    IN  [i \in DOMAIN oks |-> oks[i].path]

\* C6: with check_read=True a file that audiofile_ok finds and cannot read
\* as audio is recorded in invalid_files and is never yielded; rejecting it
\* does not stop the walk (after it the walk is running, or has finished
\* with nothing left to do), and every file that passes the checks, before
\* or after it, is yielded.
C6_UnreadableSkipped ==
    gen.check_read =>
        /\ \A i \in DOMAIN gen.checked :
              (/\ Exists(fs, gen.checked[i].path)
               /\ ~ReadsAsAudio(ContentOf(fs, gen.checked[i].path)))
              => /\ gen.checked[i].res = "invalid"
                 /\ gen.checked[i].path \in Range(gen.invalid_files)
                 /\ \A j \in DOMAIN gen.yielded :
                       gen.yielded[j].real # Resolve(fs, gen.checked[i].path).path
        /\ (gen.checked # <<>> /\ Last(gen.checked).res = "invalid")
              => \/ gen.status = "running"
                 \/ gen.status = "done" /\ NothingLeft
        /\ [i \in DOMAIN gen.yielded |-> gen.yielded[i].path] = Accepted

\* a finished check_read walk that yielded a file after rejecting an
\* unreadable one
C6_Witness ==
    /\ gen.check_read
    /\ gen.status = "done"
    /\ \E i, j \in DOMAIN gen.checked :
          /\ i < j
          /\ gen.checked[i].res = "invalid"
          /\ gen.checked[j].res = "ok"

\* C7: no step of walk() or of its generator changes label_definitions, the
\* speaker filter, dataset_root or the files on disk.
C7_WalkWritesNothing == [][gen' # gen => UNCHANGED walker_state]_vars

\* a walk with every check switched on, consumed to exhaustion
C7_Witness ==
    /\ gen.status = "done"
    /\ gen.check_duplicates /\ gen.check_read /\ gen.followlinks
    /\ Len(gen.yielded) > 0

\* the mode the claim requires of the arguments a
C8_Mode(a) ==
    IF a.root.isNone
    THEN /\ ~a.paths.isNone /\ a.paths.items # <<>>
         /\ ~a.labels.isNone /\ a.labels.items # <<>>
         /\ ~a.checksums.isNone /\ a.checksums.items # <<>>
    ELSE a.paths.isNone /\ a.labels.isNone /\ a.checksums.isNone

\* C8: construction fails with an AssertionError unless the arguments are
\* in one of the two modes, and no walker exists that has both a
\* dataset_root and predefined paths, or neither.
C8_ConstructionModes ==
    obj # "new" =>
        /\ ~C8_Mode(args) => (obj = "failed" /\ err = "AssertionError")
        /\ obj = "alive" =>
              /\ ~(~dataset_root.isNone /\ ~args.paths.isNone)
              /\ ~(dataset_root.isNone /\ args.paths.isNone)

\* a construction refused for having both a dataset_root and paths
C8_Witness ==
    /\ obj = "failed"
    /\ err = "AssertionError"
    /\ ~args.root.isNone
    /\ Truthy(args.paths)

\* C9: for OGIWalker, OGIWalker2 and TestWalker, whenever dataset_root is
\* not None and paths, labels, checksums are not given, construction
\* succeeds and each label's sample_dirs is dataset_tree[label] joined onto
\* dataset_root.
C9_TreeWheneverRooted ==
    ( /\ obj # "new"
      /\ cls \in TreeClasses
      /\ ~args.root.isNone
      /\ ~args.paths.given /\ ~args.labels.given /\ ~args.checksums.given )
    => /\ obj = "alive"
       /\ \A l \in DOMAIN dataset_tree(cls) :
             /\ l \in DOMAIN label_definitions
             /\ label_definitions[l].sample_dirs =
                   [i \in DOMAIN dataset_tree(cls)[l] |->
                       Join(args.root, RelPath(dataset_tree(cls)[l][i]))]

\* C10 as claimed: every entry a generator yields passes the filter that
\* was in force when walk() was called.
C10_FilterOfTheCall ==
    \A i \in DOMAIN gen.yielded :
        gen.yielded[i].label \in DOMAIN gen.filter_at_call
           => SpeakerListed(cls, gen.filter_at_call,
                            gen.yielded[i].path, gen.yielded[i].label)

\* C10 as amended, the steps: set_speaker_filter replaces the filter by
\* the sets of the given dict, and every file is judged by the filter the
\* walker holds at the moment the file is checked.
C10_Step ==
    /\ nFilters' # nFilters =>
          \E d \in SpeakerDicts :
             /\ DOMAIN ignored_speaker_ids_by_label' = DOMAIN d
             /\ \A l \in DOMAIN d : ignored_speaker_ids_by_label'[l] = Range(d[l])
    /\ (Checked /\ Last(gen'.checked).res = "ok"
               /\ Last(gen'.checked).label \in DOMAIN ignored_speaker_ids_by_label)
          => SpeakerListed(cls, ignored_speaker_ids_by_label,
                           Last(gen'.checked).path, Last(gen'.checked).label)
    /\ (Checked /\ Last(gen'.checked).res = "filtered")
          => /\ Last(gen'.checked).label \in DOMAIN ignored_speaker_ids_by_label
             /\ ~SpeakerListed(cls, ignored_speaker_ids_by_label,
                               Last(gen'.checked).path, Last(gen'.checked).label)

\* C10 as amended: the filter a generator applies is the one in force when
\* each file is checked, so a partially consumed generator follows a later
\* set_speaker_filter, whose dict replaces the previous filter.
C10_FilterOfTheMoment == [][C10_Step]_vars

\* a generator that, after a set_speaker_filter during its walk, yielded an
\* entry which the filter in force at its walk() call rejects
C10_Witness ==
    /\ nFilters > gen.filters_at_call
    /\ \E i \in DOMAIN gen.yielded :
          /\ gen.yielded[i].label \in DOMAIN gen.filter_at_call
          /\ ~SpeakerListed(cls, gen.filter_at_call,
                            gen.yielded[i].path, gen.yielded[i].label)

\* would the same walk with check_duplicates=False yield this file:
\* audiofile_ok on it, with the duplicate check switched off
YieldedWithoutDuplicateCheck(path, label) ==
    audiofile_ok(fs, cls, ignored_speaker_ids_by_label,
                 [gen EXCEPT !.check_duplicates = FALSE], path, label).res = "ok"

\* the walks C11 is about: finished, with check_duplicates=True, and with
\* the speaker filter unchanged since walk() was called
C11_Scope ==
    /\ obj = "alive"
    /\ gen.status = "done"
    /\ gen.check_duplicates
    /\ nFilters = gen.filters_at_call

\* C11: with check_duplicates=True only redundant copies are dropped: for
\* every group of files with identical content (equal content hashes), if a
\* member of the group would be yielded by the same walk with
\* check_duplicates=False, then exactly one member of the group is yielded.
C11_OnlyRedundantDropped ==
    C11_Scope =>
        \A i \in DOMAIN gen.checked :
            YieldedWithoutDuplicateCheck(gen.checked[i].path, gen.checked[i].label)
               => Cardinality({j \in DOMAIN gen.yielded :
                                  gen.yielded[j].md5 =
                                     md5sum(ContentOf(fs, gen.checked[i].path))}) = 1

=============================================================================
